---- MODULE Spec2Model ----
(***************************************************************************)
(* commentRouter (src/server/api/router/comment.ts): create, edit, delete, *)
(* like and get over the comment, like and notification tables.            *)
(*                                                                         *)
(* Every procedure is one action: a request runs its reads and writes to   *)
(* the end before the next request is looked at (the properties checked    *)
(* here are about sequences of calls).  The store hands out serial comment *)
(* ids and runs each statement as written: an insert adds one row, a       *)
(* delete by id removes one row; it checks no reference between tables.    *)
(***************************************************************************)
EXTENDS Integers, Sequences, FiniteSets, Bags, TLC

VARIABLES comments, nextId, likes, notifications, result

vars == <<comments, nextId, likes, notifications, result>>

\* The three tables the handlers write, and the id sequence of comment.
store == <<comments, nextId, likes, notifications>>

-----------------------------------------------------------------------------
\* Bounds of the model.

\* comment ids handed out in Spec
MaxComments == 3
\* comment ids handed out in SpecEdit
MaxEditComments == 2
\* body updates of one comment row
MaxEdits == 2
\* comment ids handed out in SpecGet
MaxGetComments == 2
\* comment ids handed out in SpecThread
MaxThread == 8

-----------------------------------------------------------------------------
\* Values.

Users == {"alice", "bob"}

\* ctx.session.user.id of an anonymous request, and the userId of a row that
\* was not found (undefined).
NoUser == "undefined"

\* The post table: post id -> userId.
PostOwner == [p \in {"p1", "p2"} |-> IF p = "p1" THEN "alice" ELSE "bob"]

Posts == DOMAIN PostOwner

\* A post id with no row in the post table.
MissingPost == "p0"

Bodies == {"first", "second"}

\* parentId undefined / null.  Comment ids are serial, from 1.
NoParent == 0

NEW_COMMENT_ON_YOUR_POST == "NEW_COMMENT_ON_YOUR_POST"

NEW_REPLY_TO_YOUR_COMMENT == "NEW_REPLY_TO_YOUR_COMMENT"

\* a select with one children select fewer
MaxDepthShallow == 6 - 1

\* The depth of the select of get: the top-level select nests six children
\* selects, the innermost without a children key.
MaxDepth == 6

-----------------------------------------------------------------------------
\* Helpers.

\* JavaScript truthiness of an optional user id (undefined is falsy).
TruthyUser(u) == u # NoUser

\* JavaScript truthiness of an optional comment id.
TruthyId(id) == id # NoParent

\* comment.findFirst({ where: eq(id, ...) })?.userId in table cs.
CommentUserId(cs, id) == IF id \in DOMAIN cs THEN cs[id].userId ELSE NoUser

\* post.findFirst({ where: eq(id, postId) })?.userId
PostUserId(p) == IF p \in Posts THEN PostOwner[p] ELSE NoUser

\* A row of the like table.
LikeRow(u, c) == [userId |-> u, commentId |-> c]

\* Number of like rows equal to r.
LikeRows(r) == CopiesIn(r, likes)

\* storage refreshes updatedAt on a row it updates
RefreshUpdatedAt(row) == [row EXCEPT !.updatedAt = @ + 1]

\* The elements of a finite set of integers in ascending order.
RECURSIVE Asc(_)
Asc(S) ==
    IF S = {} THEN <<>>
    ELSE LET m == CHOOSE x \in S : \A y \in S : x <= y
         IN  <<m>> \o Asc(S \ {m})

\* The elements of a finite set of integers in descending order.
RECURSIVE Desc(_)
Desc(S) ==
    IF S = {} THEN <<>>
    ELSE LET m == CHOOSE x \in S : \A y \in S : x >= y
         IN  <<m>> \o Desc(S \ {m})

-----------------------------------------------------------------------------
\* Results of a call.

NoResult == [kind |-> "none"]

Forbidden == [kind |-> "FORBIDDEN"]

\* what update(...).set(...).where(...) resolves to: not a comment row
UpdateResult == [kind |-> "updateResult"]

IdResult(id) == [kind |-> "id", id |-> id]

CommentResult(row) == [kind |-> "comment", row |-> row]

LikeResult(row) == [kind |-> "like", row |-> row]

-----------------------------------------------------------------------------

Init ==
    /\ comments = << >>
    /\ nextId = 1
    /\ likes = EmptyBag
    /\ notifications = << >>
    /\ result = NoResult

\* notification of create
Notification(type, to, by, p, c) ==
    [type |-> type, userId |-> to, notifierId |-> by, postId |-> p, commentId |-> c]

\* the reply block without the test that the parent's author is not the caller
ReplyNotificationToSelf(ns, cs, userId, postId, parentId, id) ==
    LET commentDataUserId == CommentUserId(cs, parentId)
    IN  IF TruthyId(parentId) /\ TruthyUser(commentDataUserId)
        THEN Append(ns, Notification(NEW_REPLY_TO_YOUR_COMMENT, commentDataUserId,
                                     userId, postId, id))
        ELSE ns

\* if (parentId) { ... }: the notifications ns after the reply block, the
\* parent being looked up in cs, the comment table after the insert.
ReplyNotification(ns, cs, userId, postId, parentId, id) ==
    LET commentDataUserId == CommentUserId(cs, parentId)
    IN  IF TruthyId(parentId) /\ TruthyUser(commentDataUserId)
                              /\ commentDataUserId # userId
        THEN Append(ns, Notification(NEW_REPLY_TO_YOUR_COMMENT, commentDataUserId,
                                     userId, postId, id))
        ELSE ns

\* the post block without the !parentId test
CommentNotificationOnReply(ns, userId, postId, parentId, id) ==
    LET postOwnerId == PostUserId(postId)
    IN  IF TruthyUser(postOwnerId) /\ postOwnerId # userId
        THEN Append(ns, Notification(NEW_COMMENT_ON_YOUR_POST, postOwnerId,
                                     userId, postId, id))
        ELSE ns

\* the post block with the type of the reply block
CommentNotificationReplyType(ns, userId, postId, parentId, id) ==
    LET postOwnerId == PostUserId(postId)
    IN  IF ~TruthyId(parentId) /\ TruthyUser(postOwnerId) /\ postOwnerId # userId
        THEN Append(ns, Notification(NEW_REPLY_TO_YOUR_COMMENT, postOwnerId,
                                     userId, postId, id))
        ELSE ns

\* if (!parentId && postOwnerId && postOwnerId !== userId) { ... }
CommentNotification(ns, userId, postId, parentId, id) ==
    LET postOwnerId == PostUserId(postId)
    IN  IF ~TruthyId(parentId) /\ TruthyUser(postOwnerId) /\ postOwnerId # userId
        THEN Append(ns, Notification(NEW_COMMENT_ON_YOUR_POST, postOwnerId,
                                     userId, postId, id))
        ELSE ns

\* create: ctx.session.user.id = userId, input = {body, postId, parentId}
Create(userId, postId, parentId, body) ==
    LET createdComment == [id |-> nextId, userId |-> userId, postId |-> postId,
                           body |-> body, parentId |-> parentId, updatedAt |-> 0]
        inserted == comments @@ (nextId :> createdComment)
    IN  /\ comments' = inserted
        /\ nextId' = nextId + 1
        /\ notifications' =
              CommentNotification(
                  ReplyNotification(notifications, inserted, userId, postId,
                                    parentId, createdComment.id),
                  userId, postId, parentId, createdComment.id)
        /\ result' = IdResult(createdComment.id)
        /\ UNCHANGED likes

\* edit without the ownership test on rows that exist
EditAnyone(userId, id, body) ==
    IF id \notin DOMAIN comments
    THEN /\ result' = Forbidden
         /\ UNCHANGED <<comments, nextId, likes, notifications>>
    ELSE /\ comments' = [comments EXCEPT ![id] = RefreshUpdatedAt([@ EXCEPT !.body = body])]
         /\ result' = UpdateResult
         /\ UNCHANGED <<nextId, likes, notifications>>

\* edit without the test for an unchanged body
EditAlwaysWrites(userId, id, body) ==
    IF CommentUserId(comments, id) # userId
    THEN /\ result' = Forbidden
         /\ UNCHANGED <<comments, nextId, likes, notifications>>
    ELSE /\ comments' = [comments EXCEPT ![id] = RefreshUpdatedAt([@ EXCEPT !.body = body])]
         /\ result' = UpdateResult
         /\ UNCHANGED <<nextId, likes, notifications>>

\* edit: ctx.session.user.id = userId, input = {id, body}
Edit(userId, id, body) ==
    IF CommentUserId(comments, id) # userId
    THEN /\ result' = Forbidden
         /\ UNCHANGED <<comments, nextId, likes, notifications>>
    ELSE IF comments[id].body = body
    THEN /\ result' = CommentResult(comments[id])
         /\ UNCHANGED <<comments, nextId, likes, notifications>>
    ELSE /\ comments' = [comments EXCEPT ![id] = RefreshUpdatedAt([@ EXCEPT !.body = body])]
         /\ result' = UpdateResult
         /\ UNCHANGED <<nextId, likes, notifications>>

\* The table cs without the row id.
WithoutRow(cs, id) == [i \in DOMAIN cs \ {id} |-> cs[i]]

\* delete that also removes the replies to the row and the likes on it
DeleteCascade(userId, id) ==
    IF CommentUserId(comments, id) # userId
    THEN /\ result' = Forbidden
         /\ UNCHANGED <<comments, nextId, likes, notifications>>
    ELSE /\ comments' = [i \in {j \in DOMAIN comments :
                                  j # id /\ comments[j].parentId # id} |-> comments[i]]
         /\ likes' = [r \in {x \in DOMAIN likes : x.commentId # id} |-> likes[r]]
         /\ result' = IdResult(id)
         /\ UNCHANGED <<nextId, notifications>>

\* delete: ctx.session.user.id = userId, input = {id}
Delete(userId, id) ==
    IF CommentUserId(comments, id) # userId
    THEN /\ result' = Forbidden
         /\ UNCHANGED <<comments, nextId, likes, notifications>>
    ELSE /\ comments' = WithoutRow(comments, id)
         /\ result' = IdResult(id)
         /\ UNCHANGED <<nextId, likes, notifications>>

\* like that inserts without looking for the row
LikeAlwaysInserts(userId, commentId) ==
    /\ likes' = likes (+) SetToBag({LikeRow(userId, commentId)})
    /\ result' = LikeResult(LikeRow(userId, commentId))
    /\ UNCHANGED <<comments, nextId, notifications>>

\* like: ctx.session.user.id = userId, input = {commentId}
Like(userId, commentId) ==
    LET row == LikeRow(userId, commentId)
        commentLiked == LikeRows(row) > 0
    IN  /\ likes' = IF commentLiked
                    THEN [r \in DOMAIN likes \ {row} |-> likes[r]]
                    ELSE likes (+) SetToBag({row})
        /\ result' = LikeResult(row)
        /\ UNCHANGED <<comments, nextId, notifications>>

-----------------------------------------------------------------------------
\* get

\* The ids of the rows whose parentId is id (the children relation).
ChildrenOf(id) == {j \in DOMAIN comments : comments[j].parentId = id}

\* _count.likes of comment id
CountLikes(id) ==
    LET rows == {r \in DOMAIN likes : r.commentId = id}
        RECURSIVE Sum(_)
        Sum(S) == IF S = {} THEN 0
                  ELSE LET r == CHOOSE x \in S : TRUE IN likes[r] + Sum(S \ {r})
    IN  Sum(rows)

\* likes: { where: {...(userId ? {userId} : {})}, select: {userId: true} }
SelectLikes(id, userId) ==
    {r.userId : r \in {x \in DOMAIN likes :
                          /\ x.commentId = id
                          /\ (TruthyUser(userId) => x.userId = userId)}}

\* SELECT_CHILD_CONFIG of comment id, with the children selects below it.
RECURSIVE SelectComment(_, _, _)
SelectComment(id, level, userId) ==
    LET fields == [id |-> id,
                   body |-> comments[id].body,
                   updatedAt |-> comments[id].updatedAt,
                   user |-> comments[id].userId,
                   count_likes |-> CountLikes(id),
                   likes |-> SelectLikes(id, userId)]
        kids == Asc(ChildrenOf(id))
    IN  IF level < MaxDepth
        THEN fields @@ [children |->
                 [k \in 1..Len(kids) |-> SelectComment(kids[k], level + 1, userId)]]
        ELSE fields

\* comment.findMany({ where: {postId, parentId: null}, select, orderBy })
FindMany(postId, userId) ==
    LET top == Desc({i \in DOMAIN comments :
                        comments[i].postId = postId /\ comments[i].parentId = NoParent})
    IN  [k \in 1..Len(top) |-> SelectComment(top[k], 0, userId)]

\* shapeComments with youLikedThis true whenever like rows came back
RECURSIVE ShapeCommentAnyLike(_, _)
ShapeCommentAnyLike(comment, userId) ==
    LET shaped == [youLikedThis |-> comment.likes # {},
                   likeCount |-> comment.count_likes,
                   id |-> comment.id,
                   body |-> comment.body,
                   updatedAt |-> comment.updatedAt,
                   user |-> comment.user]
    IN  IF "children" \in DOMAIN comment
        THEN shaped @@ [children |->
                 [k \in 1..Len(comment.children) |->
                     ShapeCommentAnyLike(comment.children[k], userId)]]
        ELSE shaped

\* One element of shapeComments' map.
RECURSIVE ShapeComment(_, _)
ShapeComment(comment, userId) ==
    LET shaped == [youLikedThis |-> \E u \in comment.likes : u = userId,
                   likeCount |-> comment.count_likes,
                   id |-> comment.id,
                   body |-> comment.body,
                   updatedAt |-> comment.updatedAt,
                   user |-> comment.user]
    IN  IF "children" \in DOMAIN comment
        THEN shaped @@ [children |->
                 [k \in 1..Len(comment.children) |->
                     ShapeComment(comment.children[k], userId)]]
        ELSE shaped

shapeComments(commentsArr, userId) ==
    [k \in 1..Len(commentsArr) |-> ShapeComment(commentsArr[k], userId)]

\* comment.count({ where: {postId} }) over top-level rows only
CountTopLevel(postId) ==
    Cardinality({i \in DOMAIN comments :
                    comments[i].postId = postId /\ comments[i].parentId = NoParent})

\* comment.count({ where: {postId} })
CountComments(postId) ==
    Cardinality({i \in DOMAIN comments : comments[i].postId = postId})

GetResult(postId, userId) ==
    [kind |-> "comments",
     data |-> shapeComments(FindMany(postId, userId), userId),
     count |-> CountComments(postId)]

\* get: ctx?.session?.user?.id = userId (NoUser when anonymous), input = {postId}
Get(userId, postId) ==
    /\ result' = GetResult(postId, userId)
    /\ UNCHANGED <<comments, nextId, likes, notifications>>

-----------------------------------------------------------------------------
\* Spec: create and delete with every input (the notification fan-out).

CommentIds == 1..MaxComments

CreateAny ==
    \E u \in Users, p \in {"p1", MissingPost}, par \in {NoParent} \cup CommentIds :
        /\ nextId <= MaxComments
        /\ Create(u, p, par, "first")

DeleteAny == \E u \in Users, id \in CommentIds : Delete(u, id)

Next == CreateAny \/ DeleteAny

Spec == Init /\ [][Next]_vars

-----------------------------------------------------------------------------
\* SpecEdit: top-level comments on one post, edited and deleted by every
\* user and liked by one.

EditIds == 1..MaxEditComments

CreateTop ==
    \E u \in Users, b \in Bodies :
        /\ nextId <= MaxEditComments
        /\ Create(u, "p1", NoParent, b)

EditTop ==
    \E u \in Users, id \in EditIds, b \in Bodies :
        /\ (CommentUserId(comments, id) = u /\ comments[id].body # b)
              => comments[id].updatedAt < MaxEdits
        /\ Edit(u, id, b)

DeleteTop == \E u \in Users, id \in EditIds : Delete(u, id)

LikeTop == \E id \in EditIds : Like("bob", id)

NextEdit == CreateTop \/ EditTop \/ DeleteTop \/ LikeTop

SpecEdit == Init /\ [][NextEdit]_vars

-----------------------------------------------------------------------------
\* SpecGet: one author's comments and replies on two posts, liked by every
\* user and read by every caller.

GetIds == 1..MaxGetComments

CreateReply ==
    \E p \in Posts, par \in {NoParent} \cup GetIds :
        /\ nextId <= MaxGetComments
        /\ Create("alice", p, par, "first")

DeleteReply == \E id \in GetIds : Delete("alice", id)

LikeReply == \E u \in Users, id \in GetIds : Like(u, id)

GetReply == \E u \in Users \cup {NoUser}, p \in Posts : Get(u, p)

NextGet == CreateReply \/ DeleteReply \/ LikeReply \/ GetReply

SpecGet == Init /\ [][NextGet]_vars

-----------------------------------------------------------------------------
\* SpecThread: threads on post p1 that grow at their newest comment, past the
\* depth of the select of get; a reply is on p1 or on p2.

CreateThread ==
    \E par \in {NoParent, nextId - 1} :
        \E p \in (IF par = NoParent THEN {"p1"} ELSE Posts) :
            /\ nextId <= MaxThread
            /\ Create("alice", p, par, "first")

GetThread == \E u \in {"alice", NoUser}, p \in Posts : Get(u, p)

NextThread == CreateThread \/ GetThread

SpecThread == Init /\ [][NextThread]_vars

-----------------------------------------------------------------------------
\* What the properties below read off a step or a result.

\* The ids of the comment rows a step inserts.
Created == DOMAIN comments' \ DOMAIN comments

\* The notifications a step appends, given that it only appends.
Added == SubSeq(notifications', Len(notifications) + 1, Len(notifications'))

\* A step keeps the notifications it found.
KeepsNotifications ==
    /\ Len(notifications') >= Len(notifications)
    /\ SubSeq(notifications', 1, Len(notifications)) = notifications

\* Every comment row but id is the same before and after a step.
OtherRowsUnchanged(id) ==
    /\ DOMAIN comments' \ {id} = DOMAIN comments \ {id}
    /\ \A j \in DOMAIN comments \ {id} : comments'[j] = comments[j]

\* The nodes of a result tree, each with its level below the top-level comments.
RECURSIVE Nodes(_, _)
Nodes(arr, level) ==
    UNION {{[id |-> arr[k].id,
             level |-> level,
             youLikedThis |-> arr[k].youLikedThis,
             likeCount |-> arr[k].likeCount,
             hasChildren |-> "children" \in DOMAIN arr[k]]}
           \cup (IF "children" \in DOMAIN arr[k]
                 THEN Nodes(arr[k].children, level + 1)
                 ELSE {}) : k \in 1..Len(arr)}

NodeIds(arr) == {n.id : n \in Nodes(arr, 0)}

\* The number of parent links from comment id up to a top-level comment of
\* post postId, or -1 when following parentId does not arrive at one.
RECURSIVE Links(_, _, _)
Links(id, postId, fuel) ==
    IF id \notin DOMAIN comments \/ fuel = 0 THEN -1
    ELSE IF comments[id].parentId = NoParent
    THEN (IF comments[id].postId = postId THEN 0 ELSE -1)
    ELSE LET up == Links(comments[id].parentId, postId, fuel - 1)
         IN  IF up = -1 THEN -1 ELSE up + 1

LinksToTop(id, postId) == Links(id, postId, Cardinality(DOMAIN comments))

\* The number of rows of the like table for comment id.
LikesOn(id) == BagCardinality([r \in {x \in DOMAIN likes : x.commentId = id} |-> likes[r]])

Callers == Users \cup {NoUser}

-----------------------------------------------------------------------------
\* C1: a create with parentId set, whose parent comment exists and was written
\* by someone else, appends exactly one notification: NEW_REPLY_TO_YOUR_COMMENT,
\* to the parent's author, from the caller, about the comment just created (so
\* no NEW_COMMENT_ON_YOUR_POST, whoever owns the post).
C1_ReplyNotifiesParentAuthor ==
    [][\A c \in Created :
          LET row == comments'[c]
              par == row.parentId
          IN  (par # NoParent /\ par \in DOMAIN comments
                              /\ comments[par].userId # row.userId)
              => /\ KeepsNotifications
                 /\ Len(Added) = 1
                 /\ Added[1].type = NEW_REPLY_TO_YOUR_COMMENT
                 /\ Added[1].userId = comments[par].userId
                 /\ Added[1].notifierId = row.userId
                 /\ Added[1].commentId = c
                 /\ result' = IdResult(c)]_vars

\* A reply has just notified the parent's author, on a post whose owner is
\* not the caller.
C1_Witness ==
    /\ notifications # << >>
    /\ LET n == notifications[Len(notifications)]
       IN  /\ n.type = NEW_REPLY_TO_YOUR_COMMENT
           /\ result = IdResult(n.commentId)
           /\ TruthyUser(PostUserId(n.postId))
           /\ PostUserId(n.postId) # n.notifierId

\* C2: a create with parentId unset, on a post that exists and is owned by
\* someone else, appends exactly one notification: NEW_COMMENT_ON_YOUR_POST, to
\* the post's author, from the caller, about the comment just created.
C2_CommentNotifiesPostAuthor ==
    [][\A c \in Created :
          LET row == comments'[c]
          IN  (row.parentId = NoParent /\ row.postId \in Posts
                                       /\ PostOwner[row.postId] # row.userId)
              => /\ KeepsNotifications
                 /\ Len(Added) = 1
                 /\ Added[1].type = NEW_COMMENT_ON_YOUR_POST
                 /\ Added[1].userId = PostOwner[row.postId]
                 /\ Added[1].notifierId = row.userId
                 /\ Added[1].commentId = c
                 /\ result' = IdResult(c)]_vars

\* A top-level comment has just notified the post's author.
C2_Witness ==
    /\ notifications # << >>
    /\ LET n == notifications[Len(notifications)]
       IN  /\ n.type = NEW_COMMENT_ON_YOUR_POST
           /\ result = IdResult(n.commentId)
           /\ n.commentId \in DOMAIN comments
           /\ comments[n.commentId].parentId = NoParent

\* C3: a create whose recipient is the caller (a reply to a comment of the
\* caller, or a top-level comment on a post of the caller) appends no
\* notification, also for a reply to one's own comment on someone else's post;
\* and no notification ever has userId = notifierId.
C3_NoSelfNotification ==
    /\ [][\A c \in Created :
             LET row == comments'[c]
                 recipient == IF row.parentId # NoParent
                              THEN CommentUserId(comments', row.parentId)
                              ELSE PostUserId(row.postId)
             IN  recipient = row.userId => notifications' = notifications]_vars
    /\ [](\A i \in 1..Len(notifications) :
             notifications[i].userId # notifications[i].notifierId)

\* The newest comment is a reply to a comment of its own author, on a post
\* that someone else owns; that someone was notified of another comment only.
C3_Witness ==
    /\ result.kind = "id"
    /\ result.id \in DOMAIN comments
    /\ LET row == comments[result.id]
       IN  /\ row.parentId \in DOMAIN comments \ {row.id}
           /\ comments[row.parentId].userId = row.userId
           /\ TruthyUser(PostUserId(row.postId))
           /\ PostUserId(row.postId) # row.userId
           /\ notifications # << >>
           /\ \A i \in 1..Len(notifications) : notifications[i].commentId # row.id

\* C4: an edit or a delete by a caller who is not the userId of the stored
\* comment (or of a comment that is not stored) fails with FORBIDDEN and
\* leaves the comment, like and notification tables as they were.
C4_NonOwnerForbidden ==
    [][\A u \in Users, id \in EditIds :
          CommentUserId(comments, id) # u
          => /\ \A b \in Bodies :
                   Edit(u, id, b) => (result' = Forbidden /\ UNCHANGED store)
             /\ Delete(u, id) => (result' = Forbidden /\ UNCHANGED store)]_vars

\* A call has just been refused while all three tables hold rows.
C4_Witness ==
    /\ result = Forbidden
    /\ DOMAIN comments # {}
    /\ likes # EmptyBag
    /\ notifications # << >>

\* C5: an edit by the owner with the stored body writes nothing and returns
\* the stored row; with another body it overwrites the body of that row only.
C5_EditSameBodyNoWrite ==
    [][\A u \in Users, id \in EditIds, b \in Bodies :
          (CommentUserId(comments, id) = u /\ Edit(u, id, b))
          => IF comments[id].body = b
             THEN /\ UNCHANGED store
                  /\ result' = CommentResult(comments[id])
             ELSE /\ id \in DOMAIN comments'
                  /\ comments'[id].body = b
                  /\ comments'[id] # comments[id]
                  /\ OtherRowsUnchanged(id)
                  /\ UNCHANGED <<nextId, likes, notifications>>]_vars

\* An edit has just returned a stored row that an earlier edit had rewritten.
C5_Witness ==
    /\ result.kind = "comment"
    /\ result.row.id \in DOMAIN comments
    /\ comments[result.row.id] = result.row
    /\ result.row.updatedAt > 0

\* C6: like toggles the (user, comment) row: absent, it is inserted; present,
\* it is removed; the row is returned either way, no other row changes, and
\* the table never holds two rows for one (user, comment) pair.
C6_LikeToggles ==
    /\ [][\A u \in Users, c \in GetIds :
             Like(u, c)
             => /\ CopiesIn(LikeRow(u, c), likes') =
                      (IF CopiesIn(LikeRow(u, c), likes) = 0 THEN 1 ELSE 0)
                /\ result' = LikeResult(LikeRow(u, c))
                /\ \A r \in (DOMAIN likes \cup DOMAIN likes') \ {LikeRow(u, c)} :
                      CopiesIn(r, likes') = CopiesIn(r, likes)
                /\ UNCHANGED <<comments, nextId, notifications>>]_vars
    /\ [](\A r \in DOMAIN likes : likes[r] = 1)

\* A like has just removed its row, which it returns, and left another
\* user's like on the same comment in place.
C6_Witness ==
    /\ result.kind = "like"
    /\ CopiesIn(result.row, likes) = 0
    /\ \E r \in DOMAIN likes : r.commentId = result.row.commentId

\* C7: the nodes get returns are the comments at most 6 parent links below a
\* top-level comment of the post, each at the level that is its number of
\* links; a node has no children key iff it is 6 links down.
C7_GetDepthSix ==
    \A u \in Callers, p \in Posts :
        LET nodes == Nodes(GetResult(p, u).data, 0)
        IN  /\ {n.id : n \in nodes} =
                  {i \in DOMAIN comments :
                      LinksToTop(i, p) >= 0 /\ LinksToTop(i, p) <= 6}
            /\ \A n \in nodes :
                  /\ n.level = LinksToTop(n.id, p)
                  /\ n.hasChildren <=> n.level < 6
            /\ \A m, n \in nodes : m.id = n.id => m = n

\* get has just returned a thread down to level 6 and left out a comment 7
\* links below the top of that thread.
C7_Witness ==
    /\ result.kind = "comments"
    /\ \E p \in Posts :
          /\ result = GetResult(p, NoUser)
          /\ \E n \in Nodes(result.data, 0) : n.level = 6 /\ ~n.hasChildren
          /\ \E i \in DOMAIN comments :
                LinksToTop(i, p) = 7 /\ i \notin NodeIds(result.data)

\* C8: in the result of get, youLikedThis of a node is true iff the caller
\* is known and the like table holds the row (caller, node); likeCount is the
\* number of like rows of the node.
C8_YouLikedThis ==
    \A u \in Callers, p \in Posts :
        \A n \in Nodes(GetResult(p, u).data, 0) :
            /\ n.youLikedThis <=> (u # NoUser /\ CopiesIn(LikeRow(u, n.id), likes) > 0)
            /\ n.likeCount = LikesOn(n.id)

\* get has just returned, to an anonymous caller, a reply that two users like.
C8_Witness ==
    /\ result.kind = "comments"
    /\ \E p \in Posts :
          /\ result = GetResult(p, NoUser)
          /\ \E n \in Nodes(result.data, 0) :
                n.level > 0 /\ n.likeCount = 2 /\ ~n.youLikedThis

\* get has just returned, to a caller who likes it, a reply that the caller
\* alone likes.
C8_WitnessLiked ==
    /\ result.kind = "comments"
    /\ \E p \in Posts, u \in Users :
          /\ result = GetResult(p, u)
          /\ \E n \in Nodes(result.data, 0) :
                n.level > 0 /\ n.likeCount = 1 /\ n.youLikedThis

\* C9: count of get is the number of comment rows of the post at any depth,
\* whoever calls; it is at least the number of returned nodes of that post.
C9_CountAllDepths ==
    \A u \in Callers, p \in Posts :
        LET r == GetResult(p, u)
        IN  /\ r.count = Cardinality({i \in DOMAIN comments : comments[i].postId = p})
            /\ r.count >= Cardinality({i \in NodeIds(r.data) : comments[i].postId = p})
            /\ r.count = GetResult(p, NoUser).count

\* get has just counted a comment of the post that lies below the cutoff and
\* is not in data, and returned a reply that is on another post.
C9_Witness ==
    /\ result.kind = "comments"
    /\ \E p \in Posts :
          /\ result = GetResult(p, NoUser)
          /\ \E i \in DOMAIN comments :
                /\ comments[i].postId = p
                /\ LinksToTop(i, p) > 6
                /\ i \notin NodeIds(result.data)
          /\ \E j \in NodeIds(result.data) : comments[j].postId # p

====
